---- MODULE Spec2Model ----
(***************************************************************************)
(* A model of the flatqube client: the REST client (client.py), its sort   *)
(* abstraction (SortBy), and the `show` command of the CLI (cli.py).       *)
(*                                                                         *)
(* The client part follows one client operation at a time.  A paginated    *)
(* enumeration is a Python generator: its position is `pc`, and control    *)
(* passes between the consumer (Pull, Stop) and the generator body, which  *)
(* blocks in one HTTP request per page (get_data_request).                 *)
(***************************************************************************)
EXTENDS Integers, Sequences, FiniteSets, TLC

\* ---------------------------------------------------------------- bounds
MaxTotal == 3      \* largest totalCount / number of records the service holds
MaxLimit == 2      \* largest configured page size (config.api_bulk_limit)
MaxVal == 1        \* field values of a record range over 0..MaxVal
MaxLen == 3        \* longest list handed to SortBy.__call__
MaxAddr == MaxLimit       \* largest number of addresses passed to currencies()
MaxRequests == MaxTotal   \* requests followed per client operation

VARIABLES
    \* the environment: the remote service and the configuration
    svc,             \* "faithful": answers as the pagination contract says; "arbitrary": any answer
    N,               \* faithful service: the number of records it holds
    api_bulk_limit,  \* config.api_bulk_limit
    \* the client operation in progress
    op,              \* "none" or the name of the client method called
    pc,              \* position of the call / of the generator body
    inNext,          \* TRUE while the consumer is blocked inside next()
    sort_arg,        \* currencies(): the sort_by argument as passed
    sort_by,         \* currencies(): the CurrencySortBy member (its name)
    sort_order,      \* currencies(): the SortOrder member
    params,          \* the filter parameters: currencies() passes list(addresses)
    white_list_url,  \* the white_list_url argument
    data,            \* _get_data: the request body
    result,          \* _get_data: the decoded body of the last response
    idx,             \* _get_data: records of `result` already taken by the for loop
    yielded,         \* the records the consumer has received, in order
    ret,             \* the value the operation returned (RetNone, RetList, RetRecord
                     \* or RetInt)
    error,           \* the exception that reached the caller, "none" if none
    message,         \* the message of that exception
    \* history
    sent,            \* the bodies of the requests issued by this operation, in order
    received,        \* the raw records of the pages received by this operation, in order
    pagesDone        \* pages whose records have all been yielded

VARIABLES
    \* the client object, which outlives its operations
    session,         \* self._session: NoSession or the requests.Session held
    created,         \* the sessions created so far; they are numbered 1..created
    closed,          \* the sessions on which close() has been called
    last_used,       \* the session whose post() issued the latest request
    exits            \* the calls of __exit__ so far

sessVars == <<session, created, closed, last_used, exits>>

VARIABLES
    \* SortBy.__call__ applied to one input, once with inplace=True, once with inplace=False
    input,           \* the records of the iterable before the calls
    kind,            \* the type of the iterable: "list", "tuple", "generator"
    member,          \* self.name: the attribute the member sorts by
    order,           \* the order argument
    target,          \* the iterable passed with inplace=True, its contents
    source,          \* the iterable passed with inplace=False, its contents
    inplaceCall,     \* the outcome of the inplace=True call
    newCall          \* the outcome of the inplace=False call

sortVars == <<input, kind, member, order, target, source, inplaceCall, newCall>>

VARIABLES
    \* the `show` command of the CLI: the configuration it reads
    cfg_whitelist,     \* config.currencies['_whitelist']: the names it maps
    cfg_default,       \* config.currencies['_default']: the names it maps
    cfg_lists,         \* the user's currency lists: list name -> the names it maps
    cfg_default_list,  \* cli_cfg.currency.show.default_list
    \* its arguments
    currency_names,    \* the CURRENCY_NAMES arguments
    currency_lists,    \* the --list options
    sort,              \* --sort
    show_sort_order,   \* --sort-order
    update,            \* --update
    \* its progress
    spc,               \* position in show()
    currency_addresses, \* the resolved set of addresses
    lines,             \* lines of the previous table, to erase before the next
    \* what it did, in order
    warnings,          \* warn(...) messages
    calls,             \* calls of the client: method, arguments, success
    erased,            \* per cycle: the number of lines erased
    rendered,          \* per print_currencies_info call: its arguments
    failure            \* the message of fail(ctx, ...), None if it has not failed

showVars == <<cfg_whitelist, cfg_default, cfg_lists, cfg_default_list, currency_names,
              currency_lists, sort, show_sort_order, update, spc, currency_addresses, lines,
              warnings, calls, erased, rendered, failure>>

VARIABLES
    \* fmt.py / utils.py: one call of quantize_value and a second call on its result
    arg_value,         \* the Decimal passed in as `value`
    policy,            \* config.quantize.value_decimal_digits
    qfunc,             \* which quantize_value: "fmt" or "utils"
    decimal_digits,    \* the decimal_digits argument
    normalize,         \* the normalize argument
    quantized,         \* the result of the call
    requantized,       \* the result of quantize_value(result) with the defaults
    \* fmt.py / cli.py: format_value_change and print_currencies_info
    value_change_decimal_digits,  \* config.quantize.value_change_decimal_digits
    value_change_normalize,       \* config.quantize.value_change_normalize
    value_change,      \* the Decimal passed to format_value_change
    change_cell,       \* the cell format_value_change returned
    renderer,          \* which print_currencies_info: "fmt" or "cli"
    currencies_info,   \* the records passed to print_currencies_info
    fmt_sort,          \* its sort argument
    fmt_sort_order,    \* its sort_order argument
    show_trans_count,  \* its show_trans_count argument
    show_fee,          \* its show_fee argument
    table              \* the table handed to rich_print

quantVars == <<arg_value, policy, qfunc, decimal_digits, normalize, quantized, requantized>>

fmtVars == <<value_change_decimal_digits, value_change_normalize, value_change,
             change_cell, renderer, currencies_info, fmt_sort, fmt_sort_order,
             show_trans_count, show_fee, table>>

clientVars == <<svc, N, api_bulk_limit, op, pc, inNext, sort_arg, sort_by, sort_order, params, white_list_url,
                data, result, idx, yielded, ret, error, message, sent, received, pagesDone,
                sessVars>>

vars == <<clientVars, sortVars, showVars, quantVars, fmtVars>>

nonClient == <<sortVars, showVars, quantVars, fmtVars>>

\* ---------------------------------------------------------------- helpers
Min(a, b) == IF a < b THEN a ELSE b

Reverse(s) == [i \in 1..Len(s) |-> s[Len(s) + 1 - i]]

Value == 0..MaxVal

NoResult == [items |-> <<>>, hasItems |-> FALSE, hasTotal |-> FALSE, totalCount |-> 0]
NoData == [limit |-> 0, offset |-> 0, whiteListUri |-> "None", currencyAddresses |-> <<>>]
None == "None"

\* The values an operation returns: None, a list of records, one record, a count.
RetNone == [type |-> "None", items |-> <<>>, count |-> 0]
RetList(l) == [type |-> "list", items |-> l, count |-> 0]
RetRecord(r) == [type |-> "record", items |-> <<r>>, count |-> 0]
RetInt(n) == [type |-> "int", items |-> <<>>, count |-> n]

\* ---------------------------------------------------------------- models.py
\* The orderable fields of a CurrencyInfo (models.py), by attribute name.
CurrencyFields == {"price", "price_change", "tvl", "tvl_change", "volume_24h",
                   "volume_change_24h", "volume_7d", "transaction_count_24h", "fee_24h"}

\* A CurrencyInfo whose price and tvl vary; `pos` identifies the record (its address).
CurrencyInfo(p, price, tvl) ==
    [f \in CurrencyFields \cup {"pos"} |->
        IF f = "pos" THEN p ELSE IF f = "price" THEN price ELSE IF f = "tvl" THEN tvl ELSE 0]

\* A record on the wire: the payload of a CurrencyInfo, well-formed or not.
RawRecord(p, price, tvl, valid) == [info |-> CurrencyInfo(p, price, tvl), valid |-> valid]

\* model_cls.parse_obj(data): the typed record, or a ValidationError.
parse_obj(raw) == IF raw.valid THEN [ok |-> TRUE, value |-> raw.info]
                  ELSE [ok |-> FALSE, value |-> None]

\* ---------------------------------------------------------------- client.py: sorting
SortOrderValues == {"ascend", "descend"}

\* SortOrder(value): the member with that value, or a ValueError.
SortOrder(value) == IF value \in SortOrderValues THEN [ok |-> TRUE, member |-> value]
                    ELSE [ok |-> FALSE, member |-> None]

\* CurrencySortBy: member value -> member name (the attribute the member sorts by).
CurrencySortByMembers ==
    [v \in {"price", "price-ch", "tvl", "tvl-ch", "vol24h", "vol24h-ch", "vol7d",
            "trans24h", "fee24h"} |->
        CASE v = "price" -> "price"
          [] v = "price-ch" -> "price_change"
          [] v = "tvl" -> "tvl"
          [] v = "tvl-ch" -> "tvl_change"
          [] v = "vol24h" -> "volume_24h"
          [] v = "vol24h-ch" -> "volume_change_24h"
          [] v = "vol7d" -> "volume_7d"
          [] v = "trans24h" -> "transaction_count_24h"
          [] v = "fee24h" -> "fee_24h"]

\* An enum lookup that falls back to the default member for an unknown value.
CurrencySortByOrDefault(value) ==
    IF value \in DOMAIN CurrencySortByMembers
    THEN [ok |-> TRUE, name |-> CurrencySortByMembers[value]]
    ELSE [ok |-> TRUE, name |-> "tvl"]

\* CurrencySortBy(value): enum lookup by value (a member passes through); ValueError otherwise.
CurrencySortBy(value) ==
    IF value \in DOMAIN CurrencySortByMembers
    THEN [ok |-> TRUE, name |-> CurrencySortByMembers[value]]
    ELSE [ok |-> FALSE, name |-> None]

\* key = attrgetter(self.name)
attrgetter(name, rec) == rec[name]

\* One insertion of the stable sort: x goes after every element whose key is <= its own.
Insert(s, x, name) ==
    LET k == Cardinality({i \in 1..Len(s) : attrgetter(name, s[i]) <= attrgetter(name, x)})
    IN  SubSeq(s, 1, k) \o <<x>> \o SubSeq(s, k + 1, Len(s))

\* The stable ascending sort by key (list.sort without reverse).
RECURSIVE StableSort(_, _)
StableSort(s, name) ==
    IF s = <<>> THEN <<>>
    ELSE Insert(StableSort(SubSeq(s, 1, Len(s) - 1), name), s[Len(s)], name)

\* A descending sort made by reversing the ascending result.
ListSortThenReverse(s, name, reverse) ==
    IF reverse THEN Reverse(StableSort(s, name)) ELSE StableSort(s, name)

\* list.sort(key=key, reverse=reverse) / sorted(...): with reverse the list is reversed,
\* sorted ascending and reversed again, which keeps equal keys in their input order.
ListSort(s, name, reverse) ==
    IF reverse THEN Reverse(StableSort(Reverse(s), name)) ELSE StableSort(s, name)

\* An order argument that is ignored.
IsReverseNever(ord) == FALSE

\* reverse = True if order == SortOrder.descend else False
IsReverse(ord) == ord = "descend"

\* An in-place branch that forgets reverse.
SortBy_callInplaceAscending(name, iterable, knd, ord, inplace) ==
    IF inplace
    THEN IF knd = "list"
         THEN [iterable |-> ListSort(iterable, name, FALSE), ret |-> None, exc |-> "none"]
         ELSE [iterable |-> iterable, ret |-> None, exc |-> "TypeError"]
    ELSE [iterable |-> IF knd = "generator" THEN <<>> ELSE iterable,
          ret |-> ListSort(iterable, name, IsReverse(ord)), exc |-> "none"]

\* SortBy.__call__(self, iterable, order, inplace) on an iterable of type knd:
\* what the iterable holds afterwards, the value returned, the exception raised.
\* sorted() drains a generator; list.sort() reorders the list itself.
SortBy_call(name, iterable, knd, ord, inplace) ==
    IF inplace
    THEN IF knd = "list"
         THEN [iterable |-> ListSort(iterable, name, IsReverse(ord)), ret |-> None,
               exc |-> "none"]
         ELSE [iterable |-> iterable, ret |-> None, exc |-> "TypeError"]
    ELSE [iterable |-> IF knd = "generator" THEN <<>> ELSE iterable,
          ret |-> ListSort(iterable, name, IsReverse(ord)), exc |-> "none"]

\* ---------------------------------------------------------------- the remote service
\* The records the service sends for position p: the well-formed one, whose price and
\* tvl alternate with the position and run against each other, and (valids = BOOLEAN)
\* a malformed one.
ServiceRecords(p, valids) ==
    {RawRecord(p, p % 2, (p + 1) % 2, TRUE)}
    \cup (IF FALSE \in valids THEN {RawRecord(p, 0, 0, FALSE)} ELSE {})

\* Every page of k records at positions offset+1 .. offset+k.  A malformed record is
\* the last of its page: the client reads nothing after the first malformed record.
RECURSIVE Pages(_, _, _)
Pages(offset, k, valids) ==
    IF k = 0 THEN {<<>>}
    ELSE {p \o <<r>> : p \in Pages(offset, k - 1, {TRUE}),
                       r \in ServiceRecords(offset + k, valids)}

JsonBody(items, hasItems, hasTotal, total) ==
    [kind |-> "json", hasItems |-> hasItems, items |-> items,
     hasTotal |-> hasTotal, totalCount |-> total]

FailedCall(how) == [JsonBody(<<>>, FALSE, FALSE, 0) EXCEPT !.kind = how]

HttpFailures == {"connection_error", "http_error", "not_json"}

\* What the service may answer to a request (offset, limit).  The faithful service
\* holds N well-formed records and answers with those at offset+1 .. min(offset+limit, N)
\* and totalCount = N.  The arbitrary service may fail, may leave keys out of the body,
\* may send malformed records, pages shorter than asked, and any totalCount; it holds
\* at most MaxTotal records.
ServiceAnswers(offset, limit) ==
    IF svc = "faithful"
    THEN {JsonBody(p, TRUE, TRUE, N) :
            p \in Pages(offset, IF offset < N THEN Min(limit, N - offset) ELSE 0, {TRUE})}
    ELSE {FailedCall(k) : k \in HttpFailures}
         \cup {JsonBody(<<>>, FALSE, TRUE, t) : t \in 0..MaxTotal}
         \cup {JsonBody(p, TRUE, hasTotal, IF hasTotal THEN t ELSE 0) :
                 p \in UNION {Pages(offset, k, BOOLEAN) :
                                k \in 0..(IF offset < MaxTotal
                                          THEN Min(limit, MaxTotal - offset) ELSE 0)},
                 hasTotal \in BOOLEAN, t \in 0..MaxTotal}

\* ---------------------------------------------------------------- client.py: requests
\* _request: any exception of the call (connection, raise_for_status, resp.json())
\* becomes FlatQubeClientError; otherwise the decoded body is returned.
request(resp) ==
    IF resp.kind = "json" THEN [ok |-> TRUE, error |-> "none"]
    ELSE [ok |-> FALSE, error |-> "FlatQubeClientError"]

\* _parse_data: parse_obj, a ValidationError becomes FlatQubeClientError.
parse_data(raw) ==
    IF parse_obj(raw).ok THEN [ok |-> TRUE, value |-> parse_obj(raw).value, error |-> "none"]
    ELSE [ok |-> FALSE, value |-> None, error |-> "FlatQubeClientError"]

\* A request body whose limit is the number of addresses.
RequestDataLimitLen(prm, limit, wl) ==
    [limit |-> Len(prm), offset |-> 0, whiteListUri |-> wl, currencyAddresses |-> prm]

\* _get_data, lines 316-321: the body of every request of one enumeration.
RequestData(prm, limit, wl) ==
    [limit |-> limit, offset |-> 0, whiteListUri |-> wl, currencyAddresses |-> prm]

\* A running offset that counts pages instead of records.
NextOffsetPerPage(offset, n) == offset + 1

\* offset = data['offset'] + len(result[name])
NextOffset(offset, n) == offset + n

\* A next request whose body is built afresh from the offset: the white list and the
\* filter are lost.
SetOffsetFreshBody(d, offset) == [NoData EXCEPT !.limit = d.limit, !.offset = offset]

\* data['offset'] = offset: the one key of the request body that changes between pages
SetOffset(d, offset) == [d EXCEPT !.offset = offset]

\* if offset == result['totalCount']: break
LastPage(offset, totalCount) == offset = totalCount

\* The bulk lookups hand the generator to sort_by(..., inplace=False), which drains it.
BulkOps == {"currencies"}
LazyOps == {"all_currencies", "whitelist_currencies"}

\* The operation ends normally: the generator is exhausted; currencies() returns
\* the sorted list, the lazy enumerations return nothing.
Finish ==
    /\ pc' = "done"
    /\ inNext' = FALSE
    /\ ret' = IF op \in BulkOps
              THEN RetList(SortBy_call(sort_by, yielded, "generator", sort_order, FALSE).ret)
              ELSE RetNone

\* The message of an exception: its text, the entity it names and the raw payload it
\* quotes, if any.
NoPayload == RawRecord(0, 0, 0, FALSE)
Message(text, entity, hasPayload, payload) ==
    [text |-> text, entity |-> entity, hasPayload |-> hasPayload, payload |-> payload]
NoMessage == Message("", "", FALSE, NoPayload)

\* f'{err}': the text of the underlying exception
PlainMessage == Message("err", "", FALSE, NoPayload)

\* _parse_data: f'Cannot parse {name} data "{data}"\n{err}'
parse_message(name, raw) == Message("Cannot parse", name, TRUE, raw)

\* farmin_pool: f'Cannot parse farming pool info\n{err}'
farming_pool_message(raw) == Message("Cannot parse", "farming pool", FALSE, NoPayload)

\* An exception that is swallowed: the request is issued again.
RaiseMsgAndRetry(e, msg) ==
    /\ pc' = "req"
    /\ inNext' = TRUE
    /\ error' = e
    /\ message' = msg
    /\ UNCHANGED ret

\* The operation ends with exception e, whose message is msg.
RaiseMsg(e, msg) ==
    /\ pc' = "raised"
    /\ inNext' = FALSE
    /\ error' = e
    /\ message' = msg
    /\ UNCHANGED ret

\* The operation ends with exception e raised by the request or by the interpreter.
Raise(e) == RaiseMsg(e, PlainMessage)

\* A yield that, after the last record of a page, runs on to the next request
\* instead of waiting for the consumer.
YieldAndPrefetch(res, value, i) ==
    /\ yielded' = Append(yielded, value)
    /\ idx' = i
    /\ pc' = IF i = Len(res.items) THEN "req" ELSE "susp"
    /\ inNext' = FALSE

\* yield info / yield self._parse_currency_data(currency_data): record i of the page
\* `res` goes to the consumer and the generator is suspended until the next next().
Yield(res, value, i) ==
    /\ yielded' = Append(yielded, value)
    /\ idx' = i
    /\ pc' = "susp"
    /\ inNext' = FALSE

\* The body of _get_data / _get_currencies from the for loop on, with i records of the
\* page `res` taken so far and the request body at `offset`: the next record is parsed
\* and yielded, or the page is over and the loop breaks or turns to the next request.
\* h: whether the history variables record the step.
Resume(res, i, h) ==
    IF ~res.hasItems
    THEN /\ Raise("KeyError")
         /\ UNCHANGED <<data, idx, yielded, pagesDone>>
    ELSE IF i < Len(res.items)
    THEN LET parsed == parse_data(res.items[i + 1])
         IN  IF parsed.ok
             THEN /\ Yield(res, parsed.value, i + 1)
                  /\ UNCHANGED <<data, ret, error, message, pagesDone>>
             ELSE /\ RaiseMsg(parsed.error, parse_message("currency", res.items[i + 1]))
                  /\ idx' = i + 1
                  /\ UNCHANGED <<data, yielded, pagesDone>>
    ELSE /\ pagesDone' = pagesDone + (IF h THEN 1 ELSE 0)
         /\ idx' = i
         /\ UNCHANGED yielded
         /\ IF ~res.hasTotal
            THEN Raise("KeyError") /\ UNCHANGED data
            ELSE LET offset == NextOffset(data.offset, Len(res.items))
                 IN  IF LastPage(offset, res.totalCount)
                     THEN Finish /\ UNCHANGED <<data, error, message>>
                     ELSE /\ data' = SetOffset(data, offset)
                          /\ pc' = "req"
                          /\ inNext' = TRUE
                          /\ UNCHANGED <<ret, error, message>>

\* ---------------------------------------------------------------- client.py: the session
MaxExits == 2      \* calls of __exit__ followed

\* self._session = None
NoSession == 0

\* A session property that makes a new session at every access.
SessionAlwaysNew(held, n) == n + 1

\* The session property: the session held, or, when none is held, a new one (of n
\* created so far), which is then held.
Session(held, n) == IF held = NoSession THEN n + 1 ELSE held

\* self.session.post: the property is read and the request goes out on its session.
UseSession ==
    LET s == Session(session, created)
    IN  /\ session' = s
        /\ created' = IF s > created THEN s ELSE created
        /\ last_used' = s
        /\ UNCHANGED <<closed, exits>>

\* ---------------------------------------------------------------- client.py: operations
env == <<svc, N, api_bulk_limit>>

WhiteListUrls == {None, "token_white_list_url"}

\* What a caller may pass as sort_by / sort_order: members' values and other strings.
SortByInputs == {"price", "tvl", "none"}
SortOrderInputs == {"ascend", "descend"}

AddressList(n) == [i \in 1..n |-> i]

\* all_currencies(white_list_url) / whitelist_currencies(): a generator is created;
\* none of its body runs before the first next().
all_currencies ==
    /\ pc = "idle"
    /\ \E name \in LazyOps, wl \in WhiteListUrls :
         /\ name = "whitelist_currencies" => wl = "token_white_list_url"
         /\ op' = name
         /\ white_list_url' = wl
    /\ pc' = "new"
    /\ UNCHANGED <<env, inNext, sort_arg, sort_by, sort_order, params, data, result, idx,
                   yielded, ret, error, message, sent, received, pagesDone, sessVars,
                   nonClient>>

\* currencies(addresses, white_list_url, sort_by, sort_order), up to the point where
\* sort_by(...) starts to drain the generator: the two enum conversions and params.
currencies ==
    /\ pc = "idle"
    /\ op' = "currencies"
    /\ \E sb \in SortByInputs, so \in SortOrderInputs, n \in 1..MaxAddr :
         /\ sort_arg' = sb
         /\ IF CurrencySortBy(sb).ok /\ SortOrder(so).ok
            THEN /\ sort_by' = CurrencySortBy(sb).name
                 /\ sort_order' = SortOrder(so).member
                 /\ params' = AddressList(n)
                 /\ pc' = "new"
                 /\ UNCHANGED <<error, message, inNext, ret>>
            ELSE /\ Raise("ValueError")
                 /\ UNCHANGED <<sort_by, sort_order, params>>
    /\ UNCHANGED <<env, white_list_url, data, result, idx, yielded, sent, received,
                   pagesDone, sessVars, nonClient>>

\* next() on the generator, by the consumer of a lazy enumeration or by sorted():
\* the first one runs _get_data up to its first request, a later one resumes the for loop.
Pull(h) ==
    /\ op \in LazyOps \cup BulkOps
    /\ ~inNext
    /\ \/ /\ pc = "new"
          /\ data' = RequestData(params, api_bulk_limit, white_list_url)
          /\ pc' = "req"
          /\ inNext' = TRUE
          /\ UNCHANGED <<idx, yielded, ret, error, message, pagesDone>>
       \/ /\ pc = "susp"
          /\ Resume(result, idx, h)
    /\ UNCHANGED <<env, op, sort_arg, sort_by, sort_order, params, white_list_url, result,
                   sent, received, sessVars, nonClient>>

\* result = self._request(self.session.post, api_url, data=data), and what follows it
\* up to the next yield, request or end.
get_data_request(h) ==
    /\ pc = "req"
    /\ Len(sent) < MaxRequests
    /\ sent' = IF h THEN Append(sent, data) ELSE sent
    /\ UseSession
    /\ \E resp \in ServiceAnswers(data.offset, data.limit) :
         IF request(resp).ok
         THEN /\ result' = [items |-> resp.items, hasItems |-> resp.hasItems,
                            hasTotal |-> resp.hasTotal, totalCount |-> resp.totalCount]
              /\ received' = IF h THEN received \o resp.items ELSE received
              /\ Resume(result', 0, h)
         ELSE /\ Raise(request(resp).error)
              /\ UNCHANGED <<data, result, idx, yielded, pagesDone, received>>
    /\ UNCHANGED <<env, op, sort_arg, sort_by, sort_order, params, white_list_url, nonClient>>

\* The consumer of a lazy enumeration stops pulling and drops the generator.
Stop ==
    /\ op \in LazyOps
    /\ pc \in {"new", "susp"}
    /\ ~inNext
    /\ pc' = "closed"
    /\ UNCHANGED <<env, op, inNext, sort_arg, sort_by, sort_order, params, white_list_url,
                   data, result, idx, yielded, ret, error, message, sent, received,
                   pagesDone, sessVars, nonClient>>

\* currency_total_count(white_list_url): _get_total_count, one request with limit 0.
currency_total_count(h) ==
    /\ pc = "idle"
    /\ op' = "currency_total_count"
    /\ \E wl \in WhiteListUrls :
         /\ white_list_url' = wl
         /\ data' = [NoData EXCEPT !.whiteListUri = wl]
    /\ sent' = IF h THEN Append(sent, data') ELSE sent
    /\ UseSession
    /\ \E resp \in ServiceAnswers(0, 0) :
         IF ~request(resp).ok THEN Raise(request(resp).error)
         ELSE IF ~resp.hasTotal THEN Raise("KeyError")
         ELSE /\ ret' = RetInt(resp.totalCount)
              /\ pc' = "done"
              /\ UNCHANGED <<inNext, error, message>>
    /\ UNCHANGED <<env, sort_arg, sort_by, sort_order, params, result, idx, yielded,
                   pagesDone, received, nonClient>>

\* What the service may answer to a single-record lookup.
RecordAnswers ==
    IF svc = "faithful" THEN {JsonBody(<<RawRecord(1, 0, 0, TRUE)>>, TRUE, TRUE, 1)}
    ELSE {FailedCall(k) : k \in HttpFailures}
         \cup {JsonBody(<<RawRecord(1, 0, 0, valid)>>, TRUE, TRUE, 1) : valid \in BOOLEAN}

\* currency(address): one request, the body parsed as one CurrencyInfo by
\* _parse_currency_data.
\* farmin_pool(pool_address, ...): one request, FarmingPoolInfo.parse_obj with its own
\* except ValidationError.
currency(h) ==
    /\ pc = "idle"
    /\ sent' = IF h THEN Append(sent, NoData) ELSE sent
    /\ UseSession
    /\ \E name \in {"currency", "farmin_pool"}, resp \in RecordAnswers :
         /\ op' = name
         /\ IF ~request(resp).ok
            THEN Raise(request(resp).error) /\ UNCHANGED result
            ELSE /\ result' = [items |-> resp.items, hasItems |-> resp.hasItems,
                               hasTotal |-> resp.hasTotal, totalCount |-> resp.totalCount]
                 /\ IF ~parse_data(resp.items[1]).ok
                    THEN RaiseMsg(parse_data(resp.items[1]).error,
                                  IF name = "currency"
                                  THEN parse_message("currency", resp.items[1])
                                  ELSE farming_pool_message(resp.items[1]))
                    ELSE /\ ret' = RetRecord(parse_data(resp.items[1]).value)
                         /\ pc' = "done"
                         /\ UNCHANGED <<inNext, error, message>>
    /\ UNCHANGED <<env, sort_arg, sort_by, sort_order, params, white_list_url, data,
                   idx, yielded, pagesDone, received, nonClient>>

\* The caller is done with the operation; the next call starts afresh.
Return ==
    /\ pc \in {"done", "raised", "closed"}
    /\ pc' = "idle"
    /\ op' = "none"
    /\ inNext' = FALSE
    /\ sort_arg' = None
    /\ sort_by' = None
    /\ sort_order' = None
    /\ params' = <<>>
    /\ white_list_url' = None
    /\ data' = NoData
    /\ result' = NoResult
    /\ idx' = 0
    /\ yielded' = <<>>
    /\ ret' = RetNone
    /\ error' = "none"
    /\ message' = NoMessage
    /\ sent' = <<>>
    /\ received' = <<>>
    /\ pagesDone' = 0
    /\ UNCHANGED <<env, sessVars, nonClient>>

\* __exit__(exc_type, exc_val, exc_tb), at the end of a `with client:` block: the
\* session held is closed and forgotten.  The caller is not inside next().
client_exit ==
    /\ ~inNext
    /\ exits < MaxExits
    /\ exits' = exits + 1
    /\ IF session # NoSession
       THEN /\ closed' = closed \cup {session}
            /\ session' = NoSession
       ELSE UNCHANGED <<session, closed>>
    /\ UNCHANGED <<env, op, pc, inNext, sort_arg, sort_by, sort_order, params,
                   white_list_url, data, result, idx, yielded, ret, error, message, sent,
                   received, pagesDone, created, last_used, nonClient>>

\* ---------------------------------------------------------------- SortBy.__call__ alone
NotCalled == [done |-> FALSE, ret |-> None, exc |-> "none"]

SortIdle ==
    /\ input = <<>>
    /\ kind = "list"
    /\ member = "tvl"
    /\ order = "ascend"
    /\ target = <<>>
    /\ source = <<>>
    /\ inplaceCall = NotCalled
    /\ newCall = NotCalled

\* Every list of n CurrencyInfo; the record at index i has pos = i.
RECURSIVE Lists(_)
Lists(n) ==
    IF n = 0 THEN {<<>>}
    ELSE {l \o <<CurrencyInfo(n, price, tvl)>> : l \in Lists(n - 1), price \in Value,
                                                  tvl \in Value}

\* sort(iterable, order=order, inplace=True)
sort_inplace ==
    /\ ~inplaceCall.done
    /\ LET r == SortBy_call(member, target, kind, order, TRUE)
       IN  /\ target' = r.iterable
           /\ inplaceCall' = [done |-> TRUE, ret |-> r.ret, exc |-> r.exc]
    /\ UNCHANGED <<input, kind, member, order, source, newCall, clientVars, showVars, quantVars, fmtVars>>

\* sort(iterable, order=order, inplace=False), as currencies() and pairs() call it
sort_new ==
    /\ ~newCall.done
    /\ LET r == SortBy_call(member, source, kind, order, FALSE)
       IN  /\ source' = r.iterable
           /\ newCall' = [done |-> TRUE, ret |-> r.ret, exc |-> r.exc]
    /\ UNCHANGED <<input, kind, member, order, target, inplaceCall, clientVars, showVars, quantVars, fmtVars>>

\* ---------------------------------------------------------------- decimal.Decimal
MaxCoef == 999     \* largest coefficient of a Decimal passed to quantize_value
MaxScale == 2      \* most fractional digits of a Decimal passed to quantize_value

RECURSIVE Pow10(_)
Pow10(n) == IF n = 0 THEN 1 ELSE 10 * Pow10(n - 1)

\* A Decimal is sign, coefficient and exponent: (-1)^neg * coef * 10^exp.
Decimal(neg, coef, exp) == [neg |-> neg, coef |-> coef, exp |-> exp]

\* Decimal(n) of an int n >= 0
DecimalOfInt(n) == Decimal(FALSE, n, 0)

\* len(d.as_tuple().digits): the digits of the coefficient, one digit for 0
RECURSIVE NumDigits(_)
NumDigits(c) == IF c < 10 THEN 1 ELSE 1 + NumDigits(c \div 10)

is_zero(d) == d.coef = 0

\* Comparison of two Decimals by value (Decimal.__eq__, Decimal.__gt__); 0 == -0.
Scaled(d, e) == (IF d.neg THEN 0 - d.coef ELSE d.coef) * Pow10(d.exp - e)
DecimalEq(a, b) == LET e == IF a.exp < b.exp THEN a.exp ELSE b.exp
                   IN  Scaled(a, e) = Scaled(b, e)
DecimalGtZero(d) == ~d.neg /\ d.coef > 0

\* The coefficient c with its last k digits rounded away, ROUND_HALF_EVEN (the
\* rounding of the default context).
RoundHalfEven(c, k) ==
    IF k = 0 THEN c
    ELSE LET q == c \div Pow10(k)
             r == c % Pow10(k)
             half == 5 * Pow10(k - 1)
         IN  IF r > half \/ (r = half /\ q % 2 = 1) THEN q + 1 ELSE q

\* Rescale to exponent e, padding with zeros or rounding.
Rescale(d, e) ==
    IF d.exp >= e THEN Decimal(d.neg, d.coef * Pow10(d.exp - e), e)
    ELSE Decimal(d.neg, RoundHalfEven(d.coef, e - d.exp), e)

\* value.to_integral_value(): a value with exponent >= 0 is returned as it is.
to_integral_value(d) == IF d.exp >= 0 THEN d ELSE Rescale(d, 0)

\* value.quantize(Decimal('1.' + '0' * digits))
quantize(d, digits) == Rescale(d, 0 - digits)

\* value.normalize(): trailing zeros of the coefficient go to the exponent; a zero
\* becomes 0 (or -0).
RECURSIVE StripZeros(_)
StripZeros(d) == IF d.coef % 10 = 0 THEN StripZeros(Decimal(d.neg, d.coef \div 10, d.exp + 1))
                 ELSE d
Normalize(d) == IF d.coef = 0 THEN Decimal(d.neg, 0, 0) ELSE StripZeros(d)

\* ---------------------------------------------------------------- fmt.py, utils.py: quantize_value
\* An Optional[int] argument: None or an int.
NoneInt == [some |-> FALSE, int |-> 0]
SomeInt(n) == [some |-> TRUE, int |-> n]

\* `not decimal_digits`: None and 0 are both falsy.
Not(opt) == ~opt.some \/ opt.int = 0

\* config.quantize.value_decimal_digits.get(n, 0)
PolicyGet(pol, n) == IF n \in DOMAIN pol THEN pol[n] ELSE 0

\* fmt.quantize_value, lines 43-51: the digit count when none is given: the policy's
\* count for the integer digits of the rounded value, plus, when that rounds to zero,
\* abs(len(digits) + exponent) of the value.
FmtPolicyDigits(d, pol) ==
    LET value_int == to_integral_value(d)
        digits == PolicyGet(pol, NumDigits(value_int.coef))
        sum == NumDigits(d.coef) + d.exp
        zero_digits == IF sum < 0 THEN 0 - sum ELSE sum
    IN  IF is_zero(value_int) THEN digits + zero_digits ELSE digits

\* utils.quantize_value, lines 12-15
UtilsPolicyDigits(d, pol) == PolicyGet(pol, NumDigits(to_integral_value(d).coef))

\* quantize_value(value, decimal_digits, normalize) of fmt.py (func = "fmt") and of
\* utils.py (func = "utils")
quantize_value(func, d, opt, norm, pol) ==
    LET digits == IF Not(opt)
                  THEN IF func = "fmt" THEN FmtPolicyDigits(d, pol)
                       ELSE UtilsPolicyDigits(d, pol)
                  ELSE opt.int
        q == quantize(d, digits)
    IN  IF norm THEN Normalize(q) ELSE q

MaxIntDigits == 2      \* integer-digit counts the digit policy has an entry for
MaxPolicyDigits == 1   \* most fractional digits a policy entry asks for
MaxDigitsArg == 1      \* largest decimal_digits argument

Decimals == {Decimal(neg, coef, 0 - scale) :
                neg \in BOOLEAN, coef \in 0..MaxCoef, scale \in 0..MaxScale}

Policies == [1..MaxIntDigits -> 0..MaxPolicyDigits]

DigitsArgs == {NoneInt} \cup {SomeInt(n) : n \in 0..MaxDigitsArg}

NotQuantized == [done |-> FALSE, result |-> Decimal(FALSE, 0, 0)]

QuantIdle ==
    /\ arg_value = Decimal(FALSE, 0, 0)
    /\ policy = [n \in 1..MaxIntDigits |-> 0]
    /\ qfunc = "fmt"
    /\ decimal_digits = NoneInt
    /\ normalize = TRUE
    /\ quantized = NotQuantized
    /\ requantized = NotQuantized

\* quantize_value(value, decimal_digits, normalize)
quantize_value_call ==
    /\ ~quantized.done
    /\ \E func \in {"fmt", "utils"}, opt \in DigitsArgs, norm \in BOOLEAN :
         /\ qfunc' = func
         /\ decimal_digits' = opt
         /\ normalize' = norm
         /\ quantized' = [done |-> TRUE,
                          result |-> quantize_value(func, arg_value, opt, norm, policy)]
    /\ UNCHANGED <<arg_value, policy, requantized, clientVars, sortVars, showVars, fmtVars>>

\* quantize_value(result, decimal_digits, normalize): the same call on the result
quantize_value_again ==
    /\ quantized.done
    /\ ~requantized.done
    /\ requantized' = [done |-> TRUE,
                       result |-> quantize_value(qfunc, quantized.result, decimal_digits,
                                                 normalize, policy)]
    /\ UNCHANGED <<arg_value, policy, qfunc, decimal_digits, normalize, quantized,
                   clientVars, sortVars, showVars, fmtVars>>

\* ---------------------------------------------------------------- fmt.py, cli.py: cells
\* humanize_value(value): f'{value:f}' with the integer part grouped by thousands:
\* the sign of the Decimal, its integer part, the number of separators, and the
\* fractional digits (as many as the exponent says).
humanize_value(d) ==
    IF d.exp >= 0
    THEN [sign |-> IF d.neg THEN "-" ELSE "", int |-> d.coef * Pow10(d.exp),
          commas |-> (NumDigits(d.coef * Pow10(d.exp)) - 1) \div 3, frac |-> 0, scale |-> 0]
    ELSE [sign |-> IF d.neg THEN "-" ELSE "", int |-> d.coef \div Pow10(0 - d.exp),
          commas |-> (NumDigits(d.coef \div Pow10(0 - d.exp)) - 1) \div 3,
          frac |-> d.coef % Pow10(0 - d.exp), scale |-> 0 - d.exp]

NoNumber == [sign |-> "", int |-> 0, commas |-> 0, frac |-> 0, scale |-> 0]

\* styled_text(indent_text(prefix + number + suffix, indent), style): a table cell.
\* `column` names the expression of the row tuple that produced it.
Cell(column, ident, indent, prefix, hasNumber, number, suffix, style) ==
    [column |-> column, ident |-> ident, indent |-> indent, prefix |-> prefix,
     hasNumber |-> hasNumber, number |-> number, suffix |-> suffix, style |-> style]

\* The quantize_value a renderer uses: fmt.py its own, cli.py the one of utils.py.
QuantizeOf(which) == IF which = "fmt" THEN "fmt" ELSE "utils"

\* quantize_value_change(value_change)
quantize_value_change(which, d, cfg) ==
    quantize_value(QuantizeOf(which), d, SomeInt(cfg.value_change_decimal_digits),
                   cfg.value_change_normalize, cfg.value_decimal_digits)

\* format_value(value, prefix), value a Decimal (isDecimal) or an int
format_value(which, column, d, isDecimal, prefix, cfg) ==
    LET q == IF isDecimal
             THEN quantize_value(QuantizeOf(which), d, NoneInt, TRUE, cfg.value_decimal_digits)
             ELSE quantize_value(QuantizeOf(which), d, SomeInt(0), TRUE,
                                 cfg.value_decimal_digits)
    IN  Cell(column, 0, 1, prefix, TRUE, humanize_value(q), "", "value")

\* A format_value_change that marks a zero change with '+' as well.
format_value_changePlusZero(which, column, d, cfg) ==
    Cell(column, 0, 2, IF d.neg /\ ~is_zero(d) THEN "" ELSE "+", TRUE,
         humanize_value(quantize_value_change(which, d, cfg)), "%",
         IF is_zero(d) THEN "value_change_zero"
         ELSE IF DecimalGtZero(d) THEN "value_change_plus" ELSE "value_change_minus")

\* format_value_change(value_change)
format_value_change(which, column, d, cfg) ==
    LET qh_value_change == humanize_value(quantize_value_change(which, d, cfg))
    IN  IF is_zero(d)
        THEN Cell(column, 0, 2, "", TRUE, qh_value_change, "%", "value_change_zero")
        ELSE IF DecimalGtZero(d)
        THEN Cell(column, 0, 2, "+", TRUE, qh_value_change, "%", "value_change_plus")
        ELSE Cell(column, 0, 2, "", TRUE, qh_value_change, "%", "value_change_minus")

\* ---------------------------------------------------------------- fmt.py, cli.py: print_currencies_info
\* The sort glyph of the headers: none for fewer than two rows.
sort_indicatorAlways(n, ord) ==
    IF ord = "ascend" THEN <<"sort_ascend">> ELSE <<"sort_descend">>

\* sort_indicator: config's glyph for the order when there is more than one row,
\* '' otherwise.
sort_indicator(n, ord) ==
    IF n > 1 THEN IF ord = "ascend" THEN <<"sort_ascend">> ELSE <<"sort_descend">>
    ELSE <<>>

\* The titles before a sort indicator is added.
BaseTitle(column) ==
    CASE column = "name" -> <<"Name">>
      [] column = "border" -> <<"border">>
      [] column = "price" -> <<"Price">>
      [] column = "tvl" -> <<"TVL">>
      [] column = "volume_24h" -> <<"24h Volume">>
      [] column = "volume_7d" -> <<"7d Volume">>
      [] column = "transaction_count_24h" -> <<"24h Tr-s">>
      [] column = "fee_24h" -> <<"24h Fee">>
      [] OTHER -> <<"%">>

\* The members of CurrencySortBy the if/elif chain has a branch for: all nine in
\* fmt.py, all but fee_24h in cli.py.
SortBranches(which) ==
    IF which = "fmt" THEN CurrencyFields ELSE CurrencyFields \ {"fee_24h"}

\* add_sort_indicator(title): f'{sort_indicator} {title.strip()}'
add_sort_indicator(indicator, title) == indicator \o <<" ">> \o title

\* The title of a column after the if/elif chain.
Title(which, column, srt, indicator) ==
    IF column = srt /\ column \in SortBranches(which)
    THEN add_sort_indicator(indicator, BaseTitle(column))
    ELSE BaseTitle(column)

\* indent_text(title)
indent_text(title) == <<" ">> \o title

ChangeColumns == {"price_change", "tvl_change", "volume_change_24h"}

\* Columns that appear for two flags at once instead of each for its own.
ColumnsBothOrNone(which, trans, fee) ==
    <<"name", "border", "price", "price_change", "border", "tvl", "tvl_change", "border",
      "volume_24h", "volume_change_24h", "border", "volume_7d">>
    \o (IF trans /\ fee THEN <<"border", "transaction_count_24h">> ELSE <<>>)
    \o (IF which = "fmt" /\ fee THEN <<"border", "fee_24h">> ELSE <<>>)

\* The add_column calls in order; cli.py has no fee column.
Columns(which, trans, fee) ==
    <<"name", "border", "price", "price_change", "border", "tvl", "tvl_change", "border",
      "volume_24h", "volume_change_24h", "border", "volume_7d">>
    \o (IF trans THEN <<"border", "transaction_count_24h">> ELSE <<>>)
    \o (IF which = "fmt" /\ fee THEN <<"border", "fee_24h">> ELSE <<>>)

\* add_column(header=...): change columns are not indented.
Header(which, column, srt, indicator) ==
    [column |-> column,
     text |-> IF column \in ChangeColumns THEN Title(which, column, srt, indicator)
              ELSE indent_text(Title(which, column, srt, indicator))]

\* One element of the row tuple.  The fields of a record are the numbers the
\* Decimals stand for.
RowCell(which, column, info, cfg) ==
    CASE column = "name" -> Cell(column, info.pos, 1, "", FALSE, NoNumber, "", "name")
      [] column = "border" -> Cell(column, 0, 1, "border", FALSE, NoNumber, "", "table")
      [] column \in ChangeColumns ->
            format_value_change(which, column, DecimalOfInt(info[column]), cfg)
      [] column = "transaction_count_24h" ->
            format_value(which, column, DecimalOfInt(info[column]), FALSE, "", cfg)
      [] OTHER -> format_value(which, column, DecimalOfInt(info[column]), TRUE, "$", cfg)

\* The expressions of the row tuple in order: the twelve fixed ones, then
\* `currency_row += (...)` under each flag; cli.py has no fee cell.
RowColumns(which, trans, fee) ==
    <<"name", "border", "price", "price_change", "border", "tvl", "tvl_change", "border",
      "volume_24h", "volume_change_24h", "border", "volume_7d">>
    \o (IF trans THEN <<"border", "transaction_count_24h">> ELSE <<>>)
    \o (IF which = "fmt" /\ fee THEN <<"border", "fee_24h">> ELSE <<>>)

\* The row tuple of one record.
Row(which, info, trans, fee, cfg) ==
    [i \in 1..Len(RowColumns(which, trans, fee)) |->
        RowCell(which, RowColumns(which, trans, fee)[i], info, cfg)]

NoTable == [printed |-> FALSE, headers |-> <<>>, rows |-> <<>>]

\* A renderer that lays out no table for an empty list.
print_currencies_infoSkipEmpty(which, infos, srt, ord, trans, fee, cfg) ==
    IF infos = <<>> THEN NoTable
    ELSE [printed |-> TRUE,
          headers |-> [i \in 1..Len(Columns(which, trans, fee)) |->
                          Header(which, Columns(which, trans, fee)[i], srt,
                                 sort_indicator(Len(infos), ord))],
          rows |-> [k \in 1..Len(infos) |-> Row(which, infos[k], trans, fee, cfg)]]

\* print_currencies_info(currencies_info, sort, sort_order, show_trans_count, show_fee):
\* the table handed to rich_print.
print_currencies_info(which, infos, srt, ord, trans, fee, cfg) ==
    [printed |-> TRUE,
     headers |-> [i \in 1..Len(Columns(which, trans, fee)) |->
                     Header(which, Columns(which, trans, fee)[i], srt,
                            sort_indicator(Len(infos), ord))],
     rows |-> [k \in 1..Len(infos) |-> Row(which, infos[k], trans, fee, cfg)]]

\* config.quantize as the formatting functions read it
QuantizeConfig ==
    [value_decimal_digits |-> policy,
     value_change_decimal_digits |-> value_change_decimal_digits,
     value_change_normalize |-> value_change_normalize]

\* The records handed to the renderer: n records in the order they came in.
Records(n) == [i \in 1..n |-> CurrencyInfo(i, i % 2, (i + 1) % 2)]

NoCell == Cell("none", 0, 0, "", FALSE, NoNumber, "", "none")

FmtIdle ==
    /\ value_change_decimal_digits = 0
    /\ value_change_normalize = FALSE
    /\ value_change = Decimal(FALSE, 0, 0)
    /\ change_cell = NoCell
    /\ renderer = "fmt"
    /\ currencies_info = <<>>
    /\ fmt_sort = "tvl"
    /\ fmt_sort_order = "ascend"
    /\ show_trans_count = FALSE
    /\ show_fee = FALSE
    /\ table = NoTable

MaxChangeCoef == 15    \* largest coefficient of a change passed to format_value_change
MaxChangeDigits == 2   \* largest config.quantize.value_change_decimal_digits

ChangeValues == {Decimal(neg, coef, 0 - scale) :
                    neg \in BOOLEAN, coef \in 0..MaxChangeCoef, scale \in 0..MaxScale}

\* format_value_change(value_change) of fmt.py or of cli.py
format_value_change_call ==
    /\ change_cell = NoCell
    /\ \E which \in {"fmt", "cli"}, d \in ChangeValues :
         /\ renderer' = which
         /\ value_change' = d
         /\ change_cell' = format_value_change(which, "price_change", d, QuantizeConfig)
    /\ UNCHANGED <<value_change_decimal_digits, value_change_normalize, currencies_info,
                   fmt_sort, fmt_sort_order, show_trans_count, show_fee, table,
                   clientVars, sortVars, showVars, quantVars>>

\* print_currencies_info(...) of fmt.py, or of cli.py, which has no show_fee
print_currencies_info_call ==
    /\ ~table.printed
    /\ \E which \in {"fmt", "cli"}, n \in 0..MaxLen, srt \in CurrencyFields,
          ord \in SortOrderValues, trans \in BOOLEAN, fee \in BOOLEAN :
         /\ which = "cli" => ~fee
         /\ renderer' = which
         /\ currencies_info' = Records(n)
         /\ fmt_sort' = srt
         /\ fmt_sort_order' = ord
         /\ show_trans_count' = trans
         /\ show_fee' = fee
         /\ table' = print_currencies_info(which, Records(n), srt, ord, trans, fee,
                                           QuantizeConfig)
    /\ UNCHANGED <<value_change_decimal_digits, value_change_normalize, value_change,
                   change_cell, clientVars, sortVars, showVars, quantVars>>

\* ---------------------------------------------------------------- cli.py: show
MaxNames == 2      \* most CURRENCY_NAMES arguments
MaxLists == 1      \* most --list options
MaxCycles == 2     \* fetch-render cycles followed

\* Names as typed on the command line, and name.upper().
CliNames == {"ever", "QUBE", "foo"}
Upper(name) == CASE name = "ever" -> "EVER" [] name = "QUBE" -> "QUBE" [] name = "foo" -> "FOO"

\* List names as typed, and currency_list.startswith('_').
ListArgs == {"mylist", "nolist", "_default"}
StartsWithUnderscore(l) == l \in {"_default", "_whitelist"}

\* A token has one address, whichever list names it.
Address(name) == <<"addr", name>>

NoList == [exists |-> FALSE, names |-> {}]

ShowIdle ==
    /\ cfg_whitelist = {}
    /\ cfg_default = {}
    /\ cfg_lists = NoList
    /\ cfg_default_list = "mylist"
    /\ currency_names = <<>>
    /\ currency_lists = <<>>
    /\ sort = "tvl"
    /\ show_sort_order = "ascend"
    /\ update = FALSE
    /\ spc = "start"
    /\ currency_addresses = {}
    /\ lines = 0
    /\ warnings = <<>>
    /\ calls = <<>>
    /\ erased = <<>>
    /\ rendered = <<>>
    /\ failure = None

\* `currency_list not in config.currencies` and config.currencies[currency_list]:
\* the lists of the configuration are _whitelist, _default and the user's.
ListExists(l) == l \in {"_whitelist", "_default"} \/ (l = "mylist" /\ cfg_lists.exists)
ListNames(l, whitelist) ==
    CASE l = "_whitelist" -> whitelist
      [] l = "_default" -> cfg_default
      [] OTHER -> cfg_lists.names

\* A lookup that maps an unknown name to an address of its own instead of skipping it.
ResolveNameAnyway(name, whitelist, default) ==
    [found |-> TRUE, address |-> Address(Upper(name)), warning |-> <<>>]

\* Lines 361-369, one name: the whitelist first, then the default list, else a warning.
ResolveName(name, whitelist, default) ==
    IF Upper(name) \in whitelist
    THEN [found |-> TRUE, address |-> Address(Upper(name)), warning |-> <<>>]
    ELSE IF Upper(name) \in default
    THEN [found |-> TRUE, address |-> Address(Upper(name)), warning |-> <<>>]
    ELSE [found |-> FALSE, address |-> None,
          warning |-> <<[kind |-> "unknown_name", name |-> Upper(name)]>>]

\* Lines 357-369: the addresses and the warnings of the names, in order.
RECURSIVE ResolveNames(_, _, _)
ResolveNames(names, whitelist, default) ==
    IF names = <<>> THEN [addresses |-> {}, warnings |-> <<>>]
    ELSE LET rest == ResolveNames(SubSeq(names, 1, Len(names) - 1), whitelist, default)
             last == ResolveName(names[Len(names)], whitelist, default)
         IN  [addresses |-> rest.addresses
                            \cup (IF last.found THEN {last.address} ELSE {}),
              warnings |-> rest.warnings \o last.warning]

\* Lines 371-377: the addresses and the warnings of the lists, in order.
RECURSIVE ResolveLists(_, _)
ResolveLists(lists, whitelist) ==
    IF lists = <<>> THEN [addresses |-> {}, warnings |-> <<>>]
    ELSE LET rest == ResolveLists(SubSeq(lists, 1, Len(lists) - 1), whitelist)
             l == lists[Len(lists)]
         IN  IF StartsWithUnderscore(l) \/ ~ListExists(l)
             THEN [addresses |-> rest.addresses,
                   warnings |-> rest.warnings \o <<[kind |-> "unknown_list", name |-> l]>>]
             ELSE [addresses |-> rest.addresses
                                 \cup {Address(n) : n \in ListNames(l, whitelist)},
                   warnings |-> rest.warnings]

\* A resolution that goes on to the fetch loop without looking at the set.
ResolveNoEmptyCheck(whitelist) ==
    LET lists == IF currency_names = <<>> /\ currency_lists = <<>>
                 THEN <<cfg_default_list>> ELSE currency_lists
        byName == ResolveNames(currency_names, whitelist, cfg_default)
        byList == ResolveLists(lists, whitelist)
    IN  /\ currency_addresses' = byName.addresses \cup byList.addresses
        /\ warnings' = warnings \o byName.warnings \o byList.warnings
        /\ spc' = "loop"

\* Lines 352-383: from the arguments to the set of addresses; with no address the
\* command warns that there is nothing to show and returns.
Resolve(whitelist) ==
    LET lists == IF currency_names = <<>> /\ currency_lists = <<>>
                 THEN <<cfg_default_list>> ELSE currency_lists
        byName == ResolveNames(currency_names, whitelist, cfg_default)
        byList == ResolveLists(lists, whitelist)
        addrs == byName.addresses \cup byList.addresses
    IN  /\ currency_addresses' = addrs
        /\ warnings' = warnings \o byName.warnings \o byList.warnings
                        \o (IF addrs = {} THEN <<[kind |-> "nothing_to_show", name |-> None]>>
                            ELSE <<>>)
        /\ spc' = IF addrs = {} THEN "returned" ELSE "loop"

\* add_currency_list_to_config('_whitelist', currencies): what config.currencies
\* ['_whitelist'] reads afterwards in this process, the stored list or the stale one.
add_currency_list_to_config(old, fetched) == {old, fetched}

\* show(), lines 337-350 up to the whitelist request, or, with a whitelist in the
\* configuration, through the resolution of the arguments (lines 352-383).
show_enter ==
    /\ spc = "start"
    /\ IF cfg_whitelist = {}
       THEN /\ spc' = "whitelist"
            /\ UNCHANGED <<currency_addresses, warnings>>
       ELSE Resolve(cfg_whitelist)
    /\ UNCHANGED <<cfg_whitelist, cfg_default, cfg_lists, cfg_default_list, currency_names,
                   currency_lists, sort, show_sort_order, update, lines, calls, erased,
                   rendered, failure, clientVars, sortVars, quantVars, fmtVars>>

\* client.whitelist_currencies() answers: a failure ends the command, otherwise the
\* whitelist is stored and the arguments are resolved.
show_whitelist ==
    /\ spc = "whitelist"
    /\ \E ok \in BOOLEAN :
         /\ calls' = Append(calls, [method |-> "whitelist_currencies", ok |-> ok,
                                    addresses |-> {}, sort_by |-> None, sort_order |-> None,
                                    records |-> 0])
         /\ IF ok
            THEN \E fetched \in {{}, {"EVER", "QUBE"}} :
                   \E now \in add_currency_list_to_config(cfg_whitelist, fetched) :
                     /\ cfg_whitelist' = now
                     /\ Resolve(now)
                     /\ UNCHANGED failure
            ELSE /\ failure' = "Failed to get whitelist currencies"
                 /\ spc' = "failed"
                 /\ UNCHANGED <<cfg_whitelist, currency_addresses, warnings>>
    /\ UNCHANGED <<cfg_default, cfg_lists, cfg_default_list, currency_names, currency_lists,
                   sort, show_sort_order, update, lines, erased, rendered, clientVars,
                   sortVars, quantVars, fmtVars>>

\* A line count that leaves out the header line of the table.
LinesNoHeader(n) == n

\* lines = len(currencies_info) + 1
Lines(n) == n + 1

\* One turn of the while loop, lines 387-404: erase the previous table, fetch, and
\* either fail or print the table; with --update sleep and go round again.
show_cycle ==
    /\ spc = "loop"
    /\ Len(erased) < MaxCycles
    /\ erased' = Append(erased, lines)
    /\ \E ok \in BOOLEAN, n \in 0..Cardinality(currency_addresses) :
         /\ ~ok => n = 0
         /\ calls' = Append(calls, [method |-> "currencies", ok |-> ok,
                                    addresses |-> currency_addresses, sort_by |-> sort,
                                    sort_order |-> show_sort_order, records |-> n])
         /\ IF ok
            THEN   /\ rendered' = Append(rendered,
                        [rows |-> n, sort |-> sort, sort_order |-> show_sort_order,
                         after |-> Len(calls'),
                         table |-> print_currencies_info("cli", Records(n), sort,
                                      show_sort_order, show_trans_count, FALSE,
                                      QuantizeConfig)])
                   /\ IF update
                      THEN lines' = Lines(n) /\ spc' = "loop"
                      ELSE spc' = "returned" /\ UNCHANGED lines
                   /\ UNCHANGED failure
            ELSE /\ failure' = "Failed to get currencies info"
                 /\ spc' = "failed"
                 /\ UNCHANGED <<lines, rendered>>
    /\ UNCHANGED <<cfg_whitelist, cfg_default, cfg_lists, cfg_default_list, currency_names,
                   currency_lists, sort, show_sort_order, update, currency_addresses,
                   warnings, clientVars, sortVars, quantVars, fmtVars>>

\* Every tuple of at most n elements of S.
RECURSIVE Tuples(_, _)
Tuples(S, n) == IF n = 0 THEN {<<>>} ELSE Tuples(S, n - 1) \cup
                    {t \o <<x>> : t \in {u \in Tuples(S, n - 1) : Len(u) = n - 1}, x \in S}

\* No client operation in progress: the state after FlatQubeClient().
ClientIdle ==
    /\ op = "none"
    /\ pc = "idle"
    /\ inNext = FALSE
    /\ sort_arg = None
    /\ sort_by = None
    /\ sort_order = None
    /\ params = <<>>
    /\ white_list_url = None
    /\ data = NoData
    /\ result = NoResult
    /\ idx = 0
    /\ yielded = <<>>
    /\ ret = RetNone
    /\ error = "none"
    /\ message = NoMessage
    /\ sent = <<>>
    /\ received = <<>>
    /\ pagesDone = 0
    /\ session = NoSession
    /\ created = 0
    /\ closed = {}
    /\ last_used = NoSession
    /\ exits = 0

Init ==
    /\ svc \in {"faithful", "arbitrary"}
    /\ N \in 0..MaxTotal
    /\ svc = "arbitrary" => N = 0
    /\ api_bulk_limit \in 1..MaxLimit
    /\ ClientIdle
    /\ SortIdle
    /\ ShowIdle
    /\ QuantIdle
    /\ FmtIdle

Next ==
    \/ all_currencies
    \/ currencies
    \/ Pull(TRUE)
    \/ get_data_request(TRUE)
    \/ Stop
    \/ currency_total_count(TRUE)
    \/ currency(TRUE)
    \/ Return

Spec == Init /\ [][Next]_vars

\* The same operations with the history variables left alone.
LiveNext ==
    \/ all_currencies
    \/ currencies
    \/ Pull(FALSE)
    \/ get_data_request(FALSE)
    \/ Stop
    \/ currency_total_count(FALSE)
    \/ currency(FALSE)
    \/ Return

\* The generator body runs whenever it can (the request is a blocking call that
\* returns), and the consumer keeps pulling.
LiveSpec ==
    Init /\ [][LiveNext]_vars /\ WF_vars(get_data_request(FALSE)) /\ WF_vars(Pull(FALSE))

\* The client operations and the context exits, in any order.
SessionNext ==
    \/ all_currencies
    \/ currencies
    \/ Pull(TRUE)
    \/ get_data_request(TRUE)
    \/ Stop
    \/ currency_total_count(TRUE)
    \/ currency(TRUE)
    \/ Return
    \/ client_exit

SessionSpec == Init /\ [][SessionNext]_vars

\* ---------------------------------------------------------------- properties, client
Enumerating == op \in LazyOps \cup BulkOps

\* C1: pagination completeness.  Against a service that answers (offset, limit) with the
\* records at offset+1 .. min(offset+limit, N) and totalCount = N, the enumeration
\* yields the records in position order without duplicate or gap, never more than N,
\* asks for no page beyond the end, and has yielded exactly N when it ends.
C1_PaginationComplete ==
    (svc = "faithful" /\ Enumerating /\ error # "ValueError") =>
        /\ \A i \in 1..Len(yielded) : yielded[i].pos = i
        /\ Len(yielded) <= N
        /\ error = "none"
        /\ pc = "req" => /\ data.offset = Len(yielded)
                         /\ data.offset < N \/ sent = <<>>
        /\ pc = "done" => Len(yielded) = N

C1_Witness ==
    /\ svc = "faithful" /\ op \in LazyOps /\ pc = "done"
    /\ N = MaxTotal /\ N % api_bulk_limit # 0 /\ Len(yielded) = N

\* C2: the enumeration is finite.  Whatever the service answers, an enumeration whose
\* consumer keeps pulling eventually ends (normally or with an error).
C2_Finite == [](pc \in {"new", "req", "susp"} => <>(pc \in {"done", "raised", "closed"}))

\* C3: lazy short-circuit.  No request before the first pull; a request is issued only
\* while the consumer is inside next() and every record of the previous page has been
\* yielded; the requests issued never exceed the completed pages plus one; after the
\* consumer has stopped, no request is issued.
C3_NoEarlyRequest ==
    Enumerating => /\ pc = "new" => sent = <<>>
                   /\ Len(sent) <= pagesDone + 1

C3_RequestOnlyOnPull ==
    (Enumerating /\ sent' # sent /\ pc' # "idle") =>
         /\ inNext
         /\ pc = "req"
         /\ idx = Len(result.items)
         /\ Len(sent) = pagesDone

C3_Lazy == [](C3_NoEarlyRequest) /\ [][C3_RequestOnlyOnPull]_vars
             /\ [][pc = "closed" => (sent' = sent \/ pc' = "idle")]_vars

C3_Witness ==
    /\ op \in LazyOps /\ pc = "closed" /\ Len(sent) = 1 /\ pagesDone = 0
    /\ yielded # <<>> /\ result.totalCount > Len(yielded)

\* C4: uniform failure.  Once the HTTP call has been made, the only exception that
\* reaches the caller is FlatQubeClientError.
C4_UniformFailure == sent # <<>> => error \in {"none", "FlatQubeClientError"}

\* C5 as stated: the first POST of currencies() carries the address list, limit equal
\* to the number of addresses and offset 0.
C5_LimitIsAddressCount ==
    (op = "currencies" /\ sent # <<>>) =>
        /\ sent[1].currencyAddresses = params
        /\ sent[1].limit = Len(params)
        /\ sent[1].offset = 0

\* C5 amended: the first POST of currencies() carries the address list, limit equal to
\* the configured bulk limit (config.api_bulk_limit) and offset 0.
C5_LimitIsBulkLimit ==
    (op = "currencies" /\ sent # <<>>) =>
        /\ sent[1].currencyAddresses = params
        /\ sent[1].limit = api_bulk_limit
        /\ sent[1].offset = 0

C5_Witness ==
    op = "currencies" /\ sent # <<>> /\ Len(params) # api_bulk_limit /\ Len(params) > 0

UnknownSortOption == op = "currencies" /\ sort_arg \notin DOMAIN CurrencySortByMembers

\* C9 as stated: an unknown or "none" sort option passed to the bulk lookup returns the
\* records in the order in which the service delivered them.
C9_UnknownSortPassesThrough ==
    UnknownSortOption => /\ error = "none"
                         /\ pc = "done" => ret = RetList(yielded)

\* C9 amended: an unknown or "none" sort option passed to the bulk lookup is rejected:
\* the call raises ValueError from the enum conversion, before any request is issued,
\* and returns no records.
C9_UnknownSortRejected ==
    UnknownSortOption => /\ pc = "raised"
                         /\ error = "ValueError"
                         /\ sent = <<>>
                         /\ yielded = <<>>
                         /\ ret = RetNone

C9_Witness == op = "currencies" /\ sort_arg = "none" /\ pc = "raised"

ShowInit ==
    /\ cfg_whitelist \in {{}, {"EVER"}}
    /\ cfg_default \in {{}, {"QUBE"}}
    /\ cfg_lists \in {NoList, [exists |-> TRUE, names |-> {}],
                      [exists |-> TRUE, names |-> {"EVER", "BRIDGE"}]}
    /\ cfg_default_list \in {"mylist", "_whitelist"}
    /\ currency_names \in Tuples(CliNames, MaxNames)
    /\ currency_lists \in Tuples(ListArgs, MaxLists)
    /\ sort \in {"tvl", "price"}
    /\ show_sort_order \in SortOrderValues
    /\ update \in BOOLEAN
    /\ spc = "start"
    /\ currency_addresses = {}
    /\ lines = 0
    /\ warnings = <<>>
    /\ calls = <<>>
    /\ erased = <<>>
    /\ rendered = <<>>
    /\ failure = None
    /\ svc = "faithful"
    /\ N = 0
    /\ api_bulk_limit = 1
    /\ ClientIdle
    /\ SortIdle
    /\ QuantIdle
    /\ FmtIdle

ShowNext == show_enter \/ show_whitelist \/ show_cycle

ShowSpec == ShowInit /\ [][ShowNext]_vars

SortInit ==
    /\ input \in UNION {Lists(n) : n \in 0..MaxLen}
    /\ kind \in {"list", "tuple", "generator"}
    /\ member \in {"price", "tvl"}
    /\ order \in SortOrderValues
    /\ target = input
    /\ source = input
    /\ inplaceCall = NotCalled
    /\ newCall = NotCalled
    /\ svc = "faithful"
    /\ N = 0
    /\ api_bulk_limit = 1
    /\ ClientIdle
    /\ ShowIdle
    /\ QuantIdle
    /\ FmtIdle

SortNext == sort_inplace \/ sort_new

SortSpec == SortInit /\ [][SortNext]_vars

\* quantize_value alone: every value and every digit policy.
QuantInit ==
    /\ arg_value \in Decimals
    /\ policy \in Policies
    /\ qfunc = "fmt"
    /\ decimal_digits = NoneInt
    /\ normalize = TRUE
    /\ quantized = NotQuantized
    /\ requantized = NotQuantized
    /\ svc = "faithful"
    /\ N = 0
    /\ api_bulk_limit = 1
    /\ ClientIdle
    /\ SortIdle
    /\ ShowIdle
    /\ FmtIdle

QuantNext == quantize_value_call \/ quantize_value_again

QuantSpec == QuantInit /\ [][QuantNext]_vars

\* The configuration the formatting functions read.
FmtConfigInit ==
    /\ policy \in Policies
    /\ value_change_decimal_digits \in 0..MaxChangeDigits
    /\ value_change_normalize \in BOOLEAN
    /\ arg_value = Decimal(FALSE, 0, 0)
    /\ qfunc = "fmt"
    /\ decimal_digits = NoneInt
    /\ normalize = TRUE
    /\ quantized = NotQuantized
    /\ requantized = NotQuantized
    /\ value_change = Decimal(FALSE, 0, 0)
    /\ change_cell = NoCell
    /\ renderer = "fmt"
    /\ currencies_info = <<>>
    /\ fmt_sort = "tvl"
    /\ fmt_sort_order = "ascend"
    /\ show_trans_count = FALSE
    /\ show_fee = FALSE
    /\ table = NoTable
    /\ svc = "faithful"
    /\ N = 0
    /\ api_bulk_limit = 1
    /\ ClientIdle
    /\ SortIdle
    /\ ShowIdle

\* format_value_change alone.
ChangeNext == format_value_change_call

ChangeSpec == FmtConfigInit /\ [][ChangeNext]_vars

\* print_currencies_info alone.
RenderNext == print_currencies_info_call

RenderSpec == FmtConfigInit /\ [][RenderNext]_vars

\* ---------------------------------------------------------------- properties, sorting
Key(rec) == attrgetter(member, rec)

IsPermutationOfInput(r) ==
    /\ Len(r) = Len(input)
    /\ \A i \in 1..Len(input) : \E j \in 1..Len(r) : r[j] = input[i]
    /\ \A i, j \in 1..Len(r) : r[i].pos = r[j].pos => i = j

\* C6: bulk-sort order.  The list sort_by(records, order, inplace=False) returns, which
\* is what currencies() returns, is a permutation of the fetched records; with ascend
\* every adjacent pair (a, b) has a.F <= b.F, with descend a.F >= b.F.
C6_BulkSortOrder ==
    newCall.done =>
        /\ newCall.exc = "none"
        /\ IsPermutationOfInput(newCall.ret)
        /\ \A i \in 1..(Len(newCall.ret) - 1) :
             IF order = "ascend" THEN Key(newCall.ret[i]) <= Key(newCall.ret[i + 1])
             ELSE Key(newCall.ret[i]) >= Key(newCall.ret[i + 1])

C6_Witness ==
    /\ newCall.done /\ kind = "generator" /\ order = "descend" /\ Len(input) = MaxLen
    /\ newCall.ret # input
    /\ \E i, j \in 1..Len(input) : Key(input[i]) # Key(input[j])

IsStable(r) == \A i, j \in 1..Len(r) : (i < j /\ Key(r[i]) = Key(r[j])) => r[i].pos < r[j].pos

\* C7: sort stability.  In both orders, and in both forms of the call, records with
\* equal values of the sort field keep their relative input order.
C7_Stable ==
    /\ newCall.done => IsStable(newCall.ret)
    /\ (inplaceCall.done /\ kind = "list") => IsStable(target)

C7_Witness ==
    /\ newCall.done /\ order = "descend" /\ newCall.ret # input
    /\ \E i, j \in 1..Len(input) : i < j /\ Key(input[i]) = Key(input[j])

\* C8: the two forms agree.  On a list, inplace=True returns nothing and leaves the
\* list in the order inplace=False returns, and inplace=False leaves its input as it
\* was; inplace=True on anything but a list raises TypeError and changes nothing.
C8_InplaceAgrees ==
    /\ (inplaceCall.done /\ kind = "list") =>
          /\ inplaceCall.ret = None
          /\ inplaceCall.exc = "none"
          /\ IsPermutationOfInput(target)
    /\ (inplaceCall.done /\ newCall.done /\ kind = "list") => target = newCall.ret
    /\ (newCall.done /\ kind = "list") => source = input
    /\ (inplaceCall.done /\ kind # "list") =>
          /\ inplaceCall.exc = "TypeError"
          /\ inplaceCall.ret = None
          /\ target = input

C8_Witness ==
    /\ inplaceCall.done /\ newCall.done /\ kind = "list" /\ order = "descend"
    /\ target # input /\ source = input

\* ---------------------------------------------------------------- properties, show
\* The arguments have been resolved against the configuration (lines 352-383 are past).
Resolved == spc \in {"loop", "returned"} \/ failure = "Failed to get currencies info"

UnknownName(i) == Upper(currency_names[i]) \notin cfg_whitelist \cup cfg_default

UnknownSupplied == \E i \in 1..Len(currency_names) : UnknownName(i)

\* C10 as stated: a supplied name that is in neither the whitelist nor the default list
\* makes the command fail with an unknown-identifier error, with no request issued
\* before the failure.
C10_UnknownNameFails ==
    (Resolved /\ UnknownSupplied) =>
        /\ spc = "failed"
        /\ failure = "unknown identifier"
        /\ calls = <<>>

\* C10 amended: such a name does not make the command fail.  The command warns about
\* it, skips it and resolves the other names and lists; when it gets that far the only
\* request issued is the whitelist fetch, made only if the configured whitelist was
\* empty, and the command fails only if a request fails.
C10_UnknownNameWarned ==
    (Resolved /\ UnknownSupplied) =>
        /\ \A i \in 1..Len(currency_names) :
             IF UnknownName(i)
             THEN [kind |-> "unknown_name", name |-> Upper(currency_names[i])]
                     \in {warnings[k] : k \in 1..Len(warnings)}
             ELSE Address(Upper(currency_names[i])) \in currency_addresses
        /\ spc = "failed" => /\ calls # <<>>
                             /\ ~calls[Len(calls)].ok
        /\ spc = "returned" /\ rendered = <<>> =>
             /\ currency_addresses = {}
             /\ warnings[Len(warnings)].kind = "nothing_to_show"
        /\ \A k \in 1..Len(calls) : calls[k].method = "whitelist_currencies" => k = 1

C10_Witness ==
    /\ spc = "loop" /\ calls = <<>>
    /\ \E i, j \in 1..Len(currency_names) : UnknownName(i) /\ ~UnknownName(j)

\* ---------------------------------------------------------------- properties, quantize_value
\* C16: a supplied digit count is honoured.  When quantize_value is called with a digit
\* count d, the result is the value rounded to d fractional digits, for every d >= 0
\* (d = 0 included); without normalize it has exactly d fractional digits.
C16_SuppliedDigitsHonoured ==
    (quantized.done /\ decimal_digits.some) =>
        /\ DecimalEq(quantized.result, Rescale(arg_value, 0 - decimal_digits.int))
        /\ ~normalize => quantized.result.exp = 0 - decimal_digits.int

\* The integral part of the value is zero and the value is not: 0 < |value| < 1.
SmallValue(d) == d.coef > 0 /\ d.coef < Pow10(0 - d.exp)

\* The zeros between the decimal point and the first significant digit.
LeadingZeros(d) == (0 - d.exp) - NumDigits(d.coef)

\* C17: small-value expansion.  With no digit count supplied, a nonzero value whose
\* integral part is zero is not quantized to zero: it is rounded to the policy's digit
\* count for one integer digit, counted beyond its leading fractional zeros.
C17_SmallValueExpansion ==
    (quantized.done /\ ~decimal_digits.some /\ SmallValue(arg_value)) =>
        /\ ~is_zero(quantized.result)
        /\ DecimalEq(quantized.result,
                     Rescale(arg_value, 0 - (PolicyGet(policy, 1) + LeadingZeros(arg_value))))

\* C18: quantization is idempotent.  With no digit count supplied and normalize on,
\* quantize_value(quantize_value(v)) equals quantize_value(v), for every value and
\* every digit policy.
C18_Idempotent ==
    (requantized.done /\ qfunc = "fmt" /\ ~decimal_digits.some /\ normalize) =>
        DecimalEq(requantized.result, quantized.result)

\* ---------------------------------------------------------------- properties, cells
\* C14: change-sign rendering.  A change cell is in exactly one of three states, decided
\* by the change value: zero has the zero style and no added prefix, positive has the
\* plus style and a '+' prefix, negative has the minus style, no added prefix and the
\* '-' of the decimal itself.
C14_ChangeSign ==
    change_cell # NoCell =>
        /\ change_cell.number = humanize_value(quantize_value_change(renderer, value_change,
                                                                     QuantizeConfig))
        /\ change_cell.suffix = "%"
        /\ is_zero(value_change) =>
              change_cell.style = "value_change_zero" /\ change_cell.prefix = ""
        /\ (~is_zero(value_change) /\ ~value_change.neg) =>
              change_cell.style = "value_change_plus" /\ change_cell.prefix = "+"
        /\ (~is_zero(value_change) /\ value_change.neg) =>
              /\ change_cell.style = "value_change_minus"
              /\ change_cell.prefix = ""
              /\ change_cell.number.sign = "-"

C14_Witness ==
    /\ change_cell.style = "value_change_minus"
    /\ change_cell.number.int = 0
    /\ change_cell.number.frac = 0
    /\ change_cell.number.sign = "-"

\* ---------------------------------------------------------------- properties, table
\* The headers of the printed table that carry a direction glyph.
GlyphHeaders(t) ==
    {i \in 1..Len(t.headers) :
        \E k \in 1..Len(t.headers[i].text) :
            t.headers[i].text[k] \in {"sort_ascend", "sort_descend"}}

\* Header i carries the glyph of the order, in front of its title.
CarriesGlyphOf(t, i, ord) ==
    \E k \in 1..Len(t.headers[i].text) :
        t.headers[i].text[k] = (IF ord = "ascend" THEN "sort_ascend" ELSE "sort_descend")

DisplayedColumns(t) == {t.headers[i].column : i \in 1..Len(t.headers)}

\* C13 as stated: with more than one row exactly one displayed header carries the
\* direction glyph, for every sort option and every combination of display flags: the
\* header of the column the active sort targets, with the glyph of the order; with
\* zero or one row no header carries a glyph.
C13_ExactlyOneGlyph ==
    table.printed =>
        IF Len(currencies_info) > 1
        THEN /\ Cardinality(GlyphHeaders(table)) = 1
             /\ \A i \in GlyphHeaders(table) :
                  /\ table.headers[i].column = fmt_sort
                  /\ CarriesGlyphOf(table, i, fmt_sort_order)
        ELSE GlyphHeaders(table) = {}

\* C13 amended: with more than one row, when the column the active sort targets is
\* displayed, exactly one header carries the glyph, the header of that column, with the
\* glyph of the order; when that column is not displayed (transaction count or fee
\* with its flag off, fee in the renderer of cli.py) no header carries a glyph; with
\* zero or one row no header carries a glyph.
C13_GlyphOnDisplayedSortColumn ==
    table.printed =>
        IF Len(currencies_info) > 1 /\ fmt_sort \in DisplayedColumns(table)
        THEN /\ Cardinality(GlyphHeaders(table)) = 1
             /\ \A i \in GlyphHeaders(table) :
                  /\ table.headers[i].column = fmt_sort
                  /\ CarriesGlyphOf(table, i, fmt_sort_order)
        ELSE GlyphHeaders(table) = {}

C13_Witness ==
    /\ table.printed
    /\ Len(currencies_info) > 1
    /\ fmt_sort = "transaction_count_24h"
    /\ ~show_trans_count
    /\ show_fee
    /\ GlyphHeaders(table) = {}

\* C15: optional columns.  The transaction-count column appears iff show_trans_count
\* is set and the fee column iff show_fee is set, each independently of the other, and
\* every row has as many cells as the table has columns, in the order of the headers.
C15_OptionalColumns ==
    table.printed =>
        /\ "transaction_count_24h" \in DisplayedColumns(table) <=> show_trans_count
        /\ "fee_24h" \in DisplayedColumns(table) <=> show_fee
        /\ Len(table.rows) = Len(currencies_info)
        /\ \A k \in 1..Len(table.rows) :
             /\ Len(table.rows[k]) = Len(table.headers)
             /\ \A i \in 1..Len(table.headers) :
                  table.rows[k][i].column = table.headers[i].column

C15_Witness ==
    /\ table.printed
    /\ renderer = "fmt"
    /\ show_fee
    /\ ~show_trans_count
    /\ Len(table.rows) > 1
    /\ Len(table.headers) = 14

\* ---------------------------------------------------------------- properties, show and empty results
\* The resolution of the arguments is past and gave no address.
ResolvedEmpty == Resolved /\ currency_addresses = {}

\* C11: zero resolved addresses.  When names and lists resolve to no address the
\* command warns that there is nothing to show and returns: no currencies request,
\* no call of the renderer, no turn of the refresh loop, with --update or without.
C11_NothingToShow ==
    ResolvedEmpty =>
        /\ spc = "returned"
        /\ warnings # <<>>
        /\ warnings[Len(warnings)].kind = "nothing_to_show"
        /\ \A k \in 1..Len(calls) : calls[k].method # "currencies"
        /\ rendered = <<>>
        /\ erased = <<>>
        /\ failure = None
        /\ ~ENABLED show_cycle

C11_Witness ==
    /\ ResolvedEmpty
    /\ update
    /\ currency_names # <<>>
    /\ calls # <<>>

\* The currencies requests that succeeded with zero records.
ZeroRecordCalls ==
    {k \in 1..Len(calls) :
        calls[k].method = "currencies" /\ calls[k].ok /\ calls[k].records = 0}

NothingToShowWarned ==
    \E i \in 1..Len(warnings) : warnings[i].kind = "nothing_to_show"

ParseFailed ==
    /\ pc = "raised"
    /\ \/ Enumerating /\ idx \in 1..Len(result.items) /\ ~result.items[idx].valid
       \/ op \in {"currency", "farmin_pool"} /\ result.items # <<>>
             /\ ~result.items[1].valid

OffendingRecord == IF Enumerating THEN result.items[idx] ELSE result.items[1]

EntityName == IF op = "farmin_pool" THEN "farming pool" ELSE "currency"

\* C19: a parse failure is identifiable and never silent.  Whenever a record of the
\* service fails model validation, in every client operation, the operation fails with
\* FlatQubeClientError whose message carries the entity name and the offending raw
\* payload, and no record is returned or yielded for it.
C19_ParseFailureIdentified ==
    ParseFailed =>
        /\ error = "FlatQubeClientError"
        /\ message.text = "Cannot parse"
        /\ message.entity = EntityName
        /\ message.hasPayload
        /\ message.payload = OffendingRecord
        /\ ret = RetNone
        /\ \A i \in 1..Len(yielded) : yielded[i] # OffendingRecord.info

\* The records parsed from the raw records up to the first malformed one.
RECURSIVE ParsedPrefix(_)
ParsedPrefix(raws) ==
    IF raws = <<>> \/ ~raws[1].valid THEN <<>>
    ELSE <<raws[1].info>> \o ParsedPrefix(Tail(raws))

C20_EndsAtFailure ==
    Enumerating =>
        /\ error # "none" => pc = "raised"
        /\ (pc = "raised" /\ error # "ValueError") =>
              /\ yielded = ParsedPrefix(received)
              /\ ret = RetNone

C20_NothingAfterFailure ==
    (Enumerating /\ pc = "raised") =>
        \/ pc' = "idle"
        \/ UNCHANGED <<pc, sent, yielded, ret, error>>

\* C20: no retry, fail fast.  When a page request or a record parse fails during a
\* paginated enumeration, the enumeration ends with the error at that point; no request
\* is issued afterwards; the records yielded are those of the earlier pages and those
\* before the failing one; currencies() returns no partial list.
C20_FailFast == [](C20_EndsAtFailure) /\ [][C20_NothingAfterFailure]_vars

C20_Witness ==
    /\ op = "currencies"
    /\ pc = "raised"
    /\ error = "FlatQubeClientError"
    /\ Len(sent) = 2
    /\ Len(yielded) = 2
    /\ Len(received) = 3

\* ---------------------------------------------------------------- properties, page requests
C21_SameBody ==
    Enumerating =>
        \A i \in 1..Len(sent) :
            /\ sent[i].limit = api_bulk_limit
            /\ sent[i].limit = sent[1].limit
            /\ sent[i].whiteListUri = white_list_url
            /\ sent[i].whiteListUri = sent[1].whiteListUri
            /\ sent[i].currencyAddresses = params
            /\ sent[i].currencyAddresses = sent[1].currencyAddresses
            /\ i = 1 => sent[i].offset = 0

\* A step that issues a page request: the body goes to `sent`; `result` still holds
\* the previous page and `yielded` the records handed out before the request.
C21_OffsetAdvances ==
    (Enumerating /\ Len(sent') = Len(sent) + 1 /\ sent # <<>>) =>
        /\ sent'[Len(sent')].offset = sent[Len(sent)].offset + Len(result.items)
        /\ sent'[Len(sent')].offset = Len(yielded)

\* C21: page requests of one enumeration differ only in offset.  Every request carries
\* the configured bulk limit, the whiteListUri and the filter parameters of the first
\* request; the first offset is 0 and each later offset is the previous offset plus the
\* number of records the previous page returned, which is the number of records
\* yielded so far.
C21_OnlyOffsetDiffers == [](C21_SameBody) /\ [][C21_OffsetAdvances]_vars

C21_Witness ==
    /\ op = "currencies"
    /\ white_list_url = None
    /\ Len(params) = 2
    /\ api_bulk_limit = 2
    /\ Len(sent) = 3
    /\ sent[2].offset = 2
    /\ sent[3].offset = 3

\* ---------------------------------------------------------------- properties, session
\* The sessions that have been created and not closed.
OpenSessions == (1..created) \ closed

\* A step in which the client issues a request / in which the context is left.
RequestStep == Len(sent') = Len(sent) + 1
ExitStep == exits' = exits + 1

C22_AtMostOneHeld ==
    /\ Cardinality(OpenSessions) <= 1
    /\ OpenSessions = IF session = NoSession THEN {} ELSE {session}
    /\ last_used = NoSession <=> created = 0

C22_Request ==
    RequestStep =>
        /\ last_used' = session'
        /\ last_used' \notin closed'
        /\ closed' = closed
        /\ IF session # NoSession
           THEN session' = session /\ created' = created
           ELSE session' = created + 1 /\ created' = created + 1

C22_Exit ==
    ExitStep =>
        /\ session' = NoSession
        /\ created' = created
        /\ closed' = IF session # NoSession THEN closed \cup {session} ELSE closed

C22_OnlyRequestsAndExits ==
    (~RequestStep /\ ~ExitStep) => UNCHANGED <<session, created, closed, last_used>>

\* C22: session lifecycle.  Over any sequence of client calls and context exits the
\* client holds at most one HTTP session at a time; the session is created on the first
\* request that needs it; every later request before the next context exit uses that
\* same session; a context exit closes the held session and clears it, and does nothing
\* when none is held; a closed session is never used for a request; a request after an
\* exit creates a new session.
C22_SessionLifecycle ==
    /\ [](C22_AtMostOneHeld)
    /\ [][C22_Request]_vars
    /\ [][C22_Exit]_vars
    /\ [][C22_OnlyRequestsAndExits]_vars

\* Two requests on the first session, an exit, an exit with no session held, and a
\* request of a suspended enumeration on a second session.
C22_Witness ==
    /\ op \in LazyOps
    /\ Len(sent) = 2
    /\ exits = 2
    /\ closed = {1}
    /\ session = 2
    /\ last_used = 2

\* ---------------------------------------------------------------- properties, refresh loop
\* The bulk fetches among the first n calls of the client.
Fetches(n) == {i \in 1..n : calls[i].method = "currencies"}

\* Every render follows, in its cycle, one successful bulk fetch with the resolved
\* addresses and the sort field and order the render is given.
C23_RenderAfterFetch ==
    \A k \in 1..Len(rendered) :
        LET fetch == calls[rendered[k].after]
        IN  /\ fetch.method = "currencies"
            /\ fetch.ok
            /\ fetch.addresses = currency_addresses
            /\ fetch.sort_by = rendered[k].sort
            /\ fetch.sort_order = rendered[k].sort_order
            /\ fetch.records = rendered[k].rows
            /\ Cardinality(Fetches(rendered[k].after)) = k

\* One fetch per cycle; a failed fetch is the last one, is not rendered and ends the
\* command with an error.
C23_FailedFetchEnds ==
    /\ Cardinality(Fetches(Len(calls))) = Len(erased)
    /\ \A i \in Fetches(Len(calls)) :
          ~calls[i].ok => /\ i = Len(calls)
                          /\ spc = "failed"
                          /\ failure = "Failed to get currencies info"
                          /\ Len(rendered) = Len(erased) - 1
    /\ (\A i \in Fetches(Len(calls)) : calls[i].ok) => Len(rendered) = Len(erased)

C23_OnceOrRepeat ==
    /\ ~update => /\ Len(erased) <= 1
                   /\ Len(rendered) = 1 => spc = "returned"
    /\ (update /\ erased # <<>>) => spc \in {"loop", "failed"}
    /\ (update /\ rendered # <<>> /\ Len(rendered) = Len(erased)) => spc = "loop"
    /\ (update /\ spc = "loop" /\ Len(erased) < MaxCycles) => ENABLED show_cycle

C23_LinesErased ==
    \A k \in 1..Len(erased) :
        erased[k] = IF k = 1 THEN 0 ELSE rendered[k - 1].rows + 1

\* C23: refresh loop of the show command.  Every render is preceded in the same cycle
\* by exactly one successful bulk fetch with the same address set, sort field and
\* order; without the update flag exactly one fetch-render cycle runs and the command
\* ends; with the update flag cycles repeat until a fetch fails, and a failed fetch ends
\* the loop with an error without rendering; before each redraw the number of terminal
\* lines erased is the previous cycle's row count plus one (zero before the first).
C23_RefreshLoop ==
    /\ C23_RenderAfterFetch
    /\ C23_FailedFetchEnds
    /\ C23_OnceOrRepeat
    /\ C23_LinesErased

\* A redraw: the second cycle erases the three lines of a table of two rows.
C23_Witness ==
    /\ update
    /\ Len(rendered) = 2
    /\ rendered[1].rows = 2
    /\ erased = <<0, 3>>
    /\ calls[1].method = "whitelist_currencies"
====
